---------------------------- MODULE Spec2Model ----------------------------
(***************************************************************************)
(* A state-machine model of the Entity-Component Manager of ign-gazebo     *)
(* (src/src/EntityComponentManager.cc).                                    *)
(*                                                                         *)
(* The private data of the manager is one VARIABLE per field.  Every       *)
(* member function is an operator from a state record (the fields, see     *)
(* Self) to the record after the call, so that functions which call other  *)
(* member functions (SetState, RequestRemoveEntities, ...) are modelled by *)
(* composing the same operators the public actions use.                    *)
(***************************************************************************)
EXTENDS Integers, Sequences, FiniteSets, TLC

(***************************************************************************)
(* Bounds of the model.                                                    *)
(***************************************************************************)
\* Width of the entity id counter (uint64_t in the code).
IdBits == 2
\* The graph, counter and storage specifications use entities 1 .. MaxEntities.
MaxEntities == 2
\* The ledger and message specifications use entities 1 .. MaxLedgerEntities.
MaxLedgerEntities == 1
\* Largest component payload value used as an input.
MaxPayload == 1
\* Number of component types registered with the Factory.
NumRegistered == 1
\* Number of worker threads the hardware reports.
HardwareConcurrency == 2
\* Number of threads that call into the manager at the same time.
NumThreads == 2

(***************************************************************************)
(* Program constants.                                                      *)
(***************************************************************************)
kNullEntity == 0
\* The one-blank string written for a removed component.
Blank == 32

\* std::numeric_limits<uint64_t>::max() at the modelled width.
MaxId == 2 ^ IdBits - 1
IdSpace == 0 .. MaxId

RegisteredTypes == 1 .. NumRegistered
\* One more type id that the Factory does not know.
UnknownType == NumRegistered + 1
AllTypes == RegisteredTypes \cup {UnknownType}
Payloads == 0 .. MaxPayload
\* A storage slot whose payload has been reset.
NullComp == -1

Threads == 1 .. NumThreads
\* A thread that is in no function of the manager.
Idle == [fn |-> "idle", pc |-> 0, held |-> {}]

VARIABLES
  entities,                  \* the EntityGraph: [V: vertices, E: <<parent, child>>]
  entityCompStorage,         \* entity -> (type -> payload or NullComp)
  createdCompTypes,
  periodicChangedComponents, \* type -> set of entities
  oneTimeChangedComponents,  \* type -> set of entities
  newlyCreatedEntities,
  toRemoveEntities,
  modifiedComponents,
  removeAllEntities,
  entityComponentsDirty,
  entityComponents,          \* entity -> set of types
  entityComponentIterators,  \* shard boundaries: entity keys, or EndIt
  views,                     \* the registered views: <<key, view>> pairs
  descendantCache,           \* entity -> set of entities
  entityCount,
  removedComponents,         \* entity -> set of types
  printedCompsFlat,          \* the static warn-once set of flat SetState
  printedCompsMap,           \* the static warn-once set of map SetState
  crashed,                   \* the process overflowed its stack
  everEntities,              \* history: every id that has been a graph vertex
  lastReturned,              \* history: what the last CreateEntity returned
  op,                        \* the last operation and its arguments
  ret,                       \* what the last operation returned
  msg,                       \* the last message an operation produced
  workers,                   \* the workers of a map-form State not yet joined
  threads                    \* thread -> the function it is in, its position
                             \* in it and the mutexes it holds

ecmVars == <<entities, entityCompStorage, createdCompTypes,
             periodicChangedComponents, oneTimeChangedComponents,
             newlyCreatedEntities, toRemoveEntities, modifiedComponents,
             removeAllEntities, entityComponentsDirty, entityComponents,
             entityComponentIterators, views, descendantCache, entityCount,
             removedComponents, printedCompsFlat, printedCompsMap, crashed>>
vars == <<ecmVars, everEntities, lastReturned, op, ret, msg, workers, threads>>

(***************************************************************************)
(* Finite maps (std::unordered_map): functions on their key set.           *)
(***************************************************************************)
EmptyMap == [k \in {} |-> {}]
Has(m, k) == k \in DOMAIN m
Put(m, k, v) == [x \in (DOMAIN m) \cup {k} |-> IF x = k THEN v ELSE m[x]]
Del(m, k) == [x \in (DOMAIN m) \ {k} |-> m[x]]
\* operator[] followed by insert(e) on the mapped set
Ins(m, k, e) == Put(m, k, (IF Has(m, k) THEN m[k] ELSE {}) \cup {e})
\* The value at k, or the empty set when k is no key.
At(m, k) == IF Has(m, k) THEN m[k] ELSE {}

RECURSIVE SetToSeq(_)
\* The elements of a finite set of integers in ascending order: the
\* iteration order the model fixes for the unordered containers.
SetToSeq(S) ==
  IF S = {} THEN <<>>
  ELSE LET m == CHOOSE x \in S : \A y \in S : x <= y
       IN <<m>> \o SetToSeq(S \ {m})

Min(a, b) == IF a <= b THEN a ELSE b

(***************************************************************************)
(* The state record and its construction.                                  *)
(***************************************************************************)
EmptyGraph == [V |-> {}, E |-> {}]
EndIt == -1

Self == [entities |-> entities,
         entityCompStorage |-> entityCompStorage,
         createdCompTypes |-> createdCompTypes,
         periodicChangedComponents |-> periodicChangedComponents,
         oneTimeChangedComponents |-> oneTimeChangedComponents,
         newlyCreatedEntities |-> newlyCreatedEntities,
         toRemoveEntities |-> toRemoveEntities,
         modifiedComponents |-> modifiedComponents,
         removeAllEntities |-> removeAllEntities,
         entityComponentsDirty |-> entityComponentsDirty,
         entityComponents |-> entityComponents,
         entityComponentIterators |-> entityComponentIterators,
         views |-> views,
         descendantCache |-> descendantCache,
         entityCount |-> entityCount,
         removedComponents |-> removedComponents,
         printedCompsFlat |-> printedCompsFlat,
         printedCompsMap |-> printedCompsMap,
         crashed |-> crashed]

\* A freshly constructed manager in a process whose warn-once sets are pf, pm.
Fresh(pf, pm) == [entities |-> EmptyGraph,
         entityCompStorage |-> EmptyMap,
         createdCompTypes |-> {},
         periodicChangedComponents |-> EmptyMap,
         oneTimeChangedComponents |-> EmptyMap,
         newlyCreatedEntities |-> {},
         toRemoveEntities |-> {},
         modifiedComponents |-> {},
         removeAllEntities |-> FALSE,
         entityComponentsDirty |-> TRUE,
         entityComponents |-> EmptyMap,
         entityComponentIterators |-> <<>>,
         views |-> {},
         descendantCache |-> EmptyMap,
         entityCount |-> 0,
         removedComponents |-> EmptyMap,
         printedCompsFlat |-> pf,
         printedCompsMap |-> pm,
         crashed |-> FALSE]

Install(s) ==
  /\ entities' = s.entities
  /\ entityCompStorage' = s.entityCompStorage
  /\ createdCompTypes' = s.createdCompTypes
  /\ periodicChangedComponents' = s.periodicChangedComponents
  /\ oneTimeChangedComponents' = s.oneTimeChangedComponents
  /\ newlyCreatedEntities' = s.newlyCreatedEntities
  /\ toRemoveEntities' = s.toRemoveEntities
  /\ modifiedComponents' = s.modifiedComponents
  /\ removeAllEntities' = s.removeAllEntities
  /\ entityComponentsDirty' = s.entityComponentsDirty
  /\ entityComponents' = s.entityComponents
  /\ entityComponentIterators' = s.entityComponentIterators
  /\ views' = s.views
  /\ descendantCache' = s.descendantCache
  /\ entityCount' = s.entityCount
  /\ removedComponents' = s.removedComponents
  /\ printedCompsFlat' = s.printedCompsFlat
  /\ printedCompsMap' = s.printedCompsMap
  /\ crashed' = s.crashed
  /\ everEntities' = everEntities \cup s.entities.V

Done(s, r) == [st |-> s, ret |-> r]


(***************************************************************************)
(* The graph library (ignition::math::graph::DirectedGraph), as the        *)
(* manager uses it.                                                        *)
(***************************************************************************)
\* AddVertex(name, data, id): refused when the id is already a vertex.
AddVertex(g, v) == [g EXCEPT !.V = @ \cup {v}]
\* RemoveVertex(id): the vertex and every edge incident to it.
RemoveVertex(g, v) ==
  [V |-> g.V \ {v}, E |-> {e \in g.E : e[1] # v /\ e[2] # v}]
\* AdjacentsFrom(v): the children of v.
AdjacentsFrom(g, v) == {e[2] : e \in {x \in g.E : x[1] = v}}
\* AdjacentsTo(v): the parents of v.
AdjacentsTo(g, v) == {e[1] : e \in {x \in g.E : x[2] = v}}
\* VertexFromId(id).Id() != kNullId
HasVertex(g, v) == v \in g.V
\* AddEdge({parent, child}): refused unless both ends are vertices.
CanAddEdge(g, p, c) == p \in g.V /\ c \in g.V
AddEdge(g, p, c) == IF CanAddEdge(g, p, c) THEN [g EXCEPT !.E = @ \cup {<<p, c>>}] ELSE g

RECURSIVE BfsFrom(_, _, _)
\* BreadthFirstSort(graph, from) as a set: the root, then layer by layer
\* the adjacent vertices not visited before.
BfsFrom(g, visited, frontier) ==
  IF frontier = {} THEN visited
  ELSE LET next == UNION {AdjacentsFrom(g, v) : v \in frontier} \ visited
       IN BfsFrom(g, visited \cup next, next)
BreadthFirstSort(g, from) == BfsFrom(g, {from}, {from})

(***************************************************************************)
(* The component storage (EntityComponentStorage) and the Factory.         *)
(***************************************************************************)
StorageAddEntity(st, e) ==
  IF Has(st, e) THEN Done(st, FALSE) ELSE Done(Put(st, e, EmptyMap), TRUE)

StorageAddComponent(st, e, t, p) ==
  IF ~Has(st, e) THEN Done(st, "FAILED_ADDITION")
  ELSE IF ~Has(st[e], t) THEN Done(Put(st, e, Put(st[e], t, p)), "NEW_ADDITION")
  ELSE IF st[e][t] = NullComp
       THEN Done(Put(st, e, Put(st[e], t, p)), "RE_ADDITION")
  ELSE Done(Put(st, e, Put(st[e], t, p)), "MODIFICATION")

\* The borrow of the payload, NullComp standing for nullptr.
ValidComponent(st, e, t) ==
  IF Has(st, e) /\ Has(st[e], t) THEN st[e][t] ELSE NullComp

StorageRemoveComponent(st, e, t) ==
  IF ValidComponent(st, e, t) = NullComp THEN Done(st, FALSE)
  ELSE Done(Put(st, e, Put(st[e], t, NullComp)), TRUE)

StorageRemoveEntity(st, e) == Del(st, e)

FactoryHasType(t) == t \in RegisteredTypes
\* Factory::New(type): a default-constructed payload.
FactoryNew(t) == 0

\* The text a payload serializes to: a value whose text is empty gives the
\* empty string.
Serialize(p) == IF p = 0 THEN <<>> ELSE <<p>>
\* The payload read back from a text; a text that holds no value (empty, or
\* the blank of a removal entry) leaves the default payload.
Deserialize(b) == IF b = <<>> \/ b = <<Blank>> THEN 0 ELSE b[1]

(***************************************************************************)
(* Queries.                                                                *)
(***************************************************************************)
HasEntity(s, e) == HasVertex(s.entities, e)

EntityCount(s) == Cardinality(s.entities.V)

EntityHasComponentType(s, e, t) ==
  /\ HasEntity(s, e)
  /\ Has(s.entityComponents, e)
  /\ t \in s.entityComponents[e]

\* EntityHasComponent(_entity, _key): operator[] on the index inserts an
\* empty type set for an existing entity that has no entry yet.
EntityHasComponent(s, e, t) ==
  IF ~HasEntity(s, e) THEN Done(s, FALSE)
  ELSE LET s1 == IF Has(s.entityComponents, e) THEN s
                 ELSE [s EXCEPT !.entityComponents = Put(@, e, {})]
       IN Done(s1, t \in s1.entityComponents[e])

IsNewEntity(s, e) == e \in s.newlyCreatedEntities

IsMarkedForRemoval(s, e) == s.removeAllEntities \/ e \in s.toRemoveEntities

ComponentState(s, e, t) ==
  IF ~Has(s.entityComponents, e) THEN "NoChange"
  ELSE IF t \notin s.entityComponents[e] THEN "NoChange"
  ELSE IF Has(s.oneTimeChangedComponents, t) /\ e \in s.oneTimeChangedComponents[t]
       THEN "OneTimeChange"
  ELSE IF Has(s.periodicChangedComponents, t) /\ e \in s.periodicChangedComponents[t]
       THEN "PeriodicChange"
  ELSE "NoChange"

ComponentImplementation(s, e, t) == ValidComponent(s.entityCompStorage, e, t)

HasComponentType(s, t) == t \in s.createdCompTypes

ParentEntity(s, e) ==
  LET parents == AdjacentsTo(s.entities, e)
  IN IF parents = {} THEN kNullEntity ELSE CHOOSE p \in parents : TRUE

(***************************************************************************)
(* Mutators.                                                               *)
(***************************************************************************)
AddModifiedComponent(s, e) ==
  IF \/ e \in s.newlyCreatedEntities
     \/ e \in s.toRemoveEntities
     \/ e \in s.modifiedComponents
  THEN s
  ELSE [s EXCEPT !.modifiedComponents = @ \cup {e}]

CreateEntityImplementation(s, e) ==
  [s EXCEPT !.entities = AddVertex(@, e),
            !.newlyCreatedEntities = @ \cup {e},
            !.descendantCache = EmptyMap,
            !.entityCompStorage = StorageAddEntity(@, e).st]

\* ++entityCount on a counter of IdBits bits.
CreateEntity(s) ==
  LET entity == (s.entityCount + 1) % (2 ^ IdBits)
      s1 == [s EXCEPT !.entityCount = entity]
  IN IF entity = MaxId THEN Done(s1, entity)
     ELSE Done(CreateEntityImplementation(s1, entity), entity)

ClearNewlyCreatedEntities(s) == [s EXCEPT !.newlyCreatedEntities = {}]

ClearRemovedComponents(s) == [s EXCEPT !.removedComponents = EmptyMap]

RECURSIVE InsertEntityRecursiveChildrenOnly(_, _, _)
\* InsertEntityRecursive without _set.insert(_entity) for the entity asked
\* for: only what the recursion into its children inserts.
InsertEntityRecursiveChildrenOnly(g, e, depth) ==
  IF depth = 0 THEN [set |-> {}, overflow |-> TRUE]
  ELSE LET subs == {InsertEntityRecursiveChildrenOnly(g, c, depth - 1) :
                      c \in AdjacentsFrom(g, e)}
       IN [set |-> AdjacentsFrom(g, e) \cup UNION {r.set : r \in subs},
           overflow |-> \E r \in subs : r.overflow]

RECURSIVE InsertEntityRecursive(_, _, _)
\* The set filled by the recursion, which keeps no record of the entities
\* it has visited.  depth counts the frames still available: a recursion
\* deeper than the number of vertices is on a cycle and never returns
\* (overflow).
InsertEntityRecursive(g, e, depth) ==
  IF depth = 0 THEN [set |-> {}, overflow |-> TRUE]
  ELSE LET subs == {InsertEntityRecursive(g, c, depth - 1) : c \in AdjacentsFrom(g, e)}
       IN [set |-> {e} \cup UNION {r.set : r \in subs},
           overflow |-> \E r \in subs : r.overflow]

\* RequestRemoveEntity that removes the vertex at once.
RequestRemoveEntityEager(s, e, recursive) ==
  [s EXCEPT !.toRemoveEntities = @ \cup {e},
            !.entities = [V |-> @.V \ {e},
                          E |-> {x \in @.E : x[1] # e /\ x[2] # e}]]

RequestRemoveEntity(s, e, recursive) ==
  LET rec == InsertEntityRecursive(s.entities, e, Cardinality(s.entities.V) + 1)
      tmpToRemoveEntities == IF recursive THEN rec.set ELSE {e}
  IN IF recursive /\ rec.overflow THEN [s EXCEPT !.crashed = TRUE]
     ELSE [s EXCEPT !.toRemoveEntities = @ \cup tmpToRemoveEntities]

\* RebuildViews only rewrites the bookkeeping inside each registered view.
RequestRemoveEntities(s) == [s EXCEPT !.removeAllEntities = TRUE]

\* The loop body without the erase of the entity's index entry.
RemoveOneEntityKeepsIndex(s, e) ==
  IF ~HasVertex(s.entities, e) THEN s
  ELSE LET s1 == [s EXCEPT !.entities = RemoveVertex(@, e)]
       IN IF Has(s1.entityComponents, e)
          THEN [s1 EXCEPT !.entityCompStorage = StorageRemoveEntity(@, e),
                          !.entityComponentsDirty = TRUE]
          ELSE s1

\* The body of the removal loop for one entity of toRemoveEntities.
RemoveOneEntity(s, e) ==
  IF ~HasEntity(s, e) THEN s
  ELSE LET s1 == [s EXCEPT !.entities = RemoveVertex(@, e)]
       IN IF Has(s1.entityComponents, e)
          THEN [s1 EXCEPT !.entityCompStorage = StorageRemoveEntity(@, e),
                          !.entityComponents = Del(@, e),
                          !.entityComponentsDirty = TRUE]
          ELSE s1

RECURSIVE RemoveEach(_, _)
RemoveEach(s, todo) ==
  IF todo = <<>> THEN s
  ELSE RemoveEach(RemoveOneEntity(s, Head(todo)), Tail(todo))

\* ProcessRemoveEntityRequests whose remove-all branch leaves the views.
ProcessRemoveEntityRequestsKeepsViews(s) ==
  LET s1 == IF s.removeAllEntities
            THEN [s EXCEPT !.removeAllEntities = FALSE,
                           !.entities = EmptyGraph,
                           !.entityComponents = EmptyMap,
                           !.toRemoveEntities = {},
                           !.entityComponentsDirty = TRUE,
                           !.entityCompStorage = EmptyMap]
            ELSE [RemoveEach(s, SetToSeq(s.toRemoveEntities))
                    EXCEPT !.toRemoveEntities = {}]
  IN [s1 EXCEPT !.descendantCache = EmptyMap]

ProcessRemoveEntityRequests(s) ==
  LET s1 == IF s.removeAllEntities
            THEN [s EXCEPT !.removeAllEntities = FALSE,
                           !.entities = EmptyGraph,
                           !.entityComponents = EmptyMap,
                           !.toRemoveEntities = {},
                           !.entityComponentsDirty = TRUE,
                           !.entityCompStorage = EmptyMap,
                           !.views = {}]
            ELSE [RemoveEach(s, SetToSeq(s.toRemoveEntities))
                    EXCEPT !.toRemoveEntities = {}]
  IN [s1 EXCEPT !.descendantCache = EmptyMap]

\* erase(_entity) on the set mapped by the type, and erase of the key when
\* the set is left empty.
EraseChanged(m, t, e) ==
  IF ~Has(m, t) THEN m
  ELSE IF m[t] \ {e} = {} THEN Del(m, t)
  ELSE Put(m, t, m[t] \ {e})

\* RemoveComponent without the erase from the entity's type set.
RemoveComponentKeepsIndex(s, e, t) ==
  IF ~EntityHasComponentType(s, e, t) THEN Done(s, FALSE)
  ELSE LET s1 == [s EXCEPT
                    !.entityComponentsDirty = TRUE,
                    !.oneTimeChangedComponents = EraseChanged(@, t, e),
                    !.periodicChangedComponents = EraseChanged(@, t, e),
                    !.entityCompStorage = StorageRemoveComponent(@, e, t).st]
           s2 == AddModifiedComponent(s1, e)
       IN Done([s2 EXCEPT !.removedComponents = Ins(@, e, t)], TRUE)

\* RemoveComponent without the removal from the storage.
RemoveComponentKeepsStorage(s, e, t) ==
  IF ~EntityHasComponentType(s, e, t) THEN Done(s, FALSE)
  ELSE LET s1 == [s EXCEPT
                    !.entityComponents = Put(@, e, @[e] \ {t}),
                    !.entityComponentsDirty = TRUE,
                    !.oneTimeChangedComponents = EraseChanged(@, t, e),
                    !.periodicChangedComponents = EraseChanged(@, t, e)]
           s2 == AddModifiedComponent(s1, e)
       IN Done([s2 EXCEPT !.removedComponents = Ins(@, e, t)], TRUE)

\* RemoveComponent that records the removal before it tests for the
\* component.
RemoveComponentRecordsFirst(s, e, t) ==
  LET s0 == [s EXCEPT !.removedComponents = Ins(@, e, t)]
  IN IF ~EntityHasComponentType(s, e, t) THEN Done(s0, FALSE)
     ELSE LET s1 == [s0 EXCEPT
                       !.entityComponents = Put(@, e, @[e] \ {t}),
                       !.entityComponentsDirty = TRUE,
                       !.oneTimeChangedComponents = EraseChanged(@, t, e),
                       !.periodicChangedComponents = EraseChanged(@, t, e),
                       !.entityCompStorage = StorageRemoveComponent(@, e, t).st]
          IN Done(AddModifiedComponent(s1, e), TRUE)

RemoveComponent(s, e, t) ==
  IF ~EntityHasComponentType(s, e, t) THEN Done(s, FALSE)
  ELSE LET s1 == [s EXCEPT
                    !.entityComponents = Put(@, e, @[e] \ {t}),
                    !.entityComponentsDirty = TRUE,
                    !.oneTimeChangedComponents = EraseChanged(@, t, e),
                    !.periodicChangedComponents = EraseChanged(@, t, e),
                    !.entityCompStorage = StorageRemoveComponent(@, e, t).st]
           s2 == AddModifiedComponent(s1, e)
       IN Done([s2 EXCEPT !.removedComponents = Ins(@, e, t)], TRUE)

\* CreateComponentImplementation that tests the type only after it has
\* written the index and the change sets.
CreateComponentIndexesFirst(s, e, t, data) ==
  IF ~HasEntity(s, e) THEN Done(s, FALSE)
  ELSE LET s1 == AddModifiedComponent(s, e)
           s2 == [s1 EXCEPT
                    !.entityComponents = Ins(@, e, t),
                    !.oneTimeChangedComponents = Ins(@, t, e),
                    !.entityComponentsDirty = TRUE]
       IN IF ~HasComponentType(s, t) /\ ~FactoryHasType(t) THEN Done(s2, FALSE)
          ELSE LET added == StorageAddComponent(s2.entityCompStorage, e, t, data)
                   s3 == [s2 EXCEPT !.entityCompStorage = added.st]
               IN IF added.ret = "FAILED_ADDITION" THEN Done(s3, FALSE)
                  ELSE Done([s3 EXCEPT !.createdCompTypes = @ \cup {t}],
                            added.ret # "NEW_ADDITION")

CreateComponentImplementation(s, e, t, data) ==
  IF ~HasEntity(s, e) THEN Done(s, FALSE)
  ELSE IF ~HasComponentType(s, t) /\ ~FactoryHasType(t) THEN Done(s, FALSE)
  ELSE LET s1 == AddModifiedComponent(s, e)
           s2 == [s1 EXCEPT
                    !.entityComponents = Ins(@, e, t),
                    !.oneTimeChangedComponents = Ins(@, t, e),
                    !.entityComponentsDirty = TRUE]
           added == StorageAddComponent(s2.entityCompStorage, e, t, data)
           s3 == [s2 EXCEPT !.entityCompStorage = added.st]
       IN IF added.ret = "FAILED_ADDITION" THEN Done(s3, FALSE)
          ELSE Done([s3 EXCEPT !.createdCompTypes = @ \cup {t}],
                    added.ret # "NEW_ADDITION")

\* erase(_entity) on the set mapped by the type; the key stays.
EraseEntity(m, t, e) == IF Has(m, t) THEN Put(m, t, m[t] \ {e}) ELSE m

\* SetChanged whose PeriodicChange case leaves the one-time set alone.
SetChangedKeepsOneTime(s, e, t, c) ==
  IF ~Has(s.entityComponents, e) THEN s
  ELSE IF t \notin s.entityComponents[e] THEN s
  ELSE LET s1 ==
         IF c = "PeriodicChange"
         THEN [s EXCEPT !.periodicChangedComponents = Ins(@, t, e)]
         ELSE IF c = "OneTimeChange"
         THEN [s EXCEPT !.periodicChangedComponents = EraseEntity(@, t, e),
                        !.oneTimeChangedComponents = Ins(@, t, e)]
         ELSE [s EXCEPT !.periodicChangedComponents = EraseEntity(@, t, e),
                        !.oneTimeChangedComponents = EraseEntity(@, t, e)]
       IN AddModifiedComponent(s1, e)

HasOneTimeComponentChanges(s) == DOMAIN s.oneTimeChangedComponents # {}

\* The keys of periodicChangedComponents.
ComponentTypesWithPeriodicChanges(s) == DOMAIN s.periodicChangedComponents

SetChanged(s, e, t, c) ==
  IF ~Has(s.entityComponents, e) THEN s
  ELSE IF t \notin s.entityComponents[e] THEN s
  ELSE LET s1 ==
         IF c = "PeriodicChange"
         THEN [s EXCEPT !.periodicChangedComponents = Ins(@, t, e),
                        !.oneTimeChangedComponents = EraseEntity(@, t, e)]
         ELSE IF c = "OneTimeChange"
         THEN [s EXCEPT !.periodicChangedComponents = EraseEntity(@, t, e),
                        !.oneTimeChangedComponents = Ins(@, t, e)]
         ELSE [s EXCEPT !.periodicChangedComponents = EraseEntity(@, t, e),
                        !.oneTimeChangedComponents = EraseEntity(@, t, e)]
       IN AddModifiedComponent(s1, e)

SetAllComponentsUnchanged(s) ==
  [s EXCEPT !.periodicChangedComponents = EmptyMap,
            !.oneTimeChangedComponents = EmptyMap,
            !.modifiedComponents = {}]

SetEntityCreateOffset(s, offset) == [s EXCEPT !.entityCount = offset]

\* SetParentEntity with the ends of the new edge exchanged.
SetParentEntityReversed(s, child, parent) ==
  LET g1 == [s.entities EXCEPT !.E = {e \in @ : e[2] # child}]
  IN IF parent = kNullEntity THEN Done([s EXCEPT !.entities = g1], TRUE)
     ELSE Done([s EXCEPT !.entities = AddEdge(g1, child, parent)],
               CanAddEdge(g1, child, parent))

\* SetParentEntity without the removal of the current parents.
SetParentEntityKeepsParents(s, child, parent) ==
  IF parent = kNullEntity THEN Done(s, TRUE)
  ELSE Done([s EXCEPT !.entities = AddEdge(@, parent, child)],
            CanAddEdge(s.entities, parent, child))

SetParentEntity(s, child, parent) ==
  LET g1 == [s.entities EXCEPT !.E = {e \in @ : e[2] # child}]
  IN IF parent = kNullEntity THEN Done([s EXCEPT !.entities = g1], TRUE)
     ELSE Done([s EXCEPT !.entities = AddEdge(g1, parent, child)],
               CanAddEdge(g1, parent, child))

\* The views are told apart by a positive number; NullView is nullptr.
NullView == 0

\* FindView, under viewsMutex: the view registered under the key, or nullptr.
FindView(s, key) ==
  IF \E p \in s.views : p[1] = key
  THEN (CHOOSE p \in s.views : p[1] = key)[2]
  ELSE NullView

\* AddView with operator[] in place of insert: the new view takes the place
\* of the one registered under the key.
AddViewReplaces(s, key, view) ==
  Done([s EXCEPT !.views = {p \in @ : p[1] # key} \cup {<<key, view>>}], view)

\* AddView, under viewsMutex: insert keeps the view already registered
\* under the key, and the view under the key is returned.
AddView(s, key, view) ==
  LET s1 == IF FindView(s, key) # NullView THEN s
            ELSE [s EXCEPT !.views = @ \cup {<<key, view>>}]
  IN Done(s1, FindView(s1, key))

Descendants(s, e) ==
  IF Has(s.descendantCache, e) THEN Done(s, s.descendantCache[e])
  ELSE IF ~HasEntity(s, e) THEN Done(s, {})
  ELSE LET descendants == BreadthFirstSort(s.entities, e)
       IN Done([s EXCEPT !.descendantCache = Put(@, e, descendants)], descendants)

(***************************************************************************)
(* Messages.  A flat message (SerializedState) is a sequence of entity     *)
(* entries, each with a sequence of component entries; a map message       *)
(* (SerializedStateMap) maps entity ids to entries whose components are    *)
(* mapped by type id.  A component's bytes are a sequence of numbers.      *)
(***************************************************************************)
CompMsg(t, bytes, rm) == [type |-> t, component |-> bytes, remove |-> rm]
EmptyStateMap == [entities |-> EmptyMap, has_one_time_component_changes |-> FALSE]
NewEntityMap(e) == [id |-> e, remove |-> FALSE, components |-> EmptyMap]

\* What comparing iterators of two different containers may give in a build:
\* the comparison of node pointers (every end() null), always unequal, or
\* always equal.
UBOutcomes == {"nodePointers", "unequal", "equal"}

RECURSIVE SerializeTypes(_, _, _)
\* One component entry per type of the sequence, in order.
SerializeTypes(s, e, ts) ==
  IF ts = <<>> THEN <<>>
  ELSE <<CompMsg(Head(ts), Serialize(ComponentImplementation(s, e, Head(ts))), FALSE)>>
       \o SerializeTypes(s, e, Tail(ts))

RECURSIVE RemovedEntries(_)
RemovedEntries(ts) ==
  IF ts = <<>> THEN <<>>
  ELSE <<CompMsg(Head(ts), <<Blank>>, TRUE)>> \o RemovedEntries(Tail(ts))

\* The removed components of e that pass the type filter.
RemovedPassing(s, e, types) ==
  {t \in At(s.removedComponents, e) : types = {} \/ t \in types}

\* SetRemovedComponentsMsgs, flat form: the entries appended to the entity.
SetRemovedComponentsMsgsFlat(s, e, types) ==
  RemovedEntries(SetToSeq(RemovedPassing(s, e, types)))

AddEntityToMessageFlat(s, m, e, types) ==
  IF ~Has(s.entityComponents, e)
  THEN Append(m, [id |-> e, remove |-> FALSE, components |-> <<>>])
  ELSE LET all == IF types = {} THEN s.entityComponents[e] ELSE types
           present == {t \in all : t \in s.entityComponents[e]}
       IN Append(m, [id |-> e,
                     remove |-> e \in s.toRemoveEntities,
                     components |->
                       SerializeTypes(s, e, SetToSeq(present))
                       \o SetRemovedComponentsMsgsFlat(s, e, types)])

\* SetRemovedComponentsMsgs, map form.
SetRemovedComponentsMsgsMap(s, m, e, types) ==
  IF At(s.removedComponents, e) = {} THEN m
  ELSE LET ents == IF Has(m.entities, e) THEN m.entities
                   ELSE Put(m.entities, e, NewEntityMap(e))
           rm == RemovedPassing(s, e, types)
           comps == [t \in (DOMAIN ents[e].components) \cup rm |->
                       IF t \in rm THEN CompMsg(t, <<Blank>>, TRUE)
                       ELSE ents[e].components[t]]
       IN [m EXCEPT !.entities = Put(ents, e, [ents[e] EXCEPT !.components = comps])]

\* The outcome of the test that decides whether a component of type t of
\* entity e is skipped as unchanged: the second comparison is between an
\* iterator of the periodic set and end() of the one-time set.
NoChange(s, e, t, ub) ==
  IF e \in At(s.oneTimeChangedComponents, t) THEN FALSE
  ELSE IF ~Has(s.periodicChangedComponents, t) THEN TRUE
  ELSE IF ub = "nodePointers" THEN e \notin s.periodicChangedComponents[t]
  ELSE ub = "equal"

\* The component types of e that are written to a map message.
WrittenTypes(s, e, types, full, ub) ==
  LET all == IF types = {} THEN s.entityComponents[e] ELSE types
  IN {t \in all : /\ t \in s.entityComponents[e]
                  /\ (full \/ ~NoChange(s, e, t, ub))}

AddEntityToMessageMap(s, m, e, types, full, ub) ==
  IF ~Has(s.entityComponents, e) THEN m
  ELSE LET marked == e \in s.toRemoveEntities
           wr == WrittenTypes(s, e, types, full, ub)
           ent0 == IF Has(m.entities, e) THEN m.entities[e] ELSE NewEntityMap(e)
           ent1 == IF marked THEN [ent0 EXCEPT !.remove = TRUE] ELSE ent0
           comps == [t \in (DOMAIN ent1.components) \cup wr |->
                       IF t \in wr
                       THEN CompMsg(t, Serialize(ComponentImplementation(s, e, t)),
                                    IF Has(ent1.components, t)
                                    THEN ent1.components[t].remove ELSE FALSE)
                       ELSE ent1.components[t]]
           m1 == IF marked \/ wr # {}
                 THEN [m EXCEPT !.entities =
                         Put(@, e, [ent1 EXCEPT !.components = comps])]
                 ELSE m
       IN SetRemovedComponentsMsgsMap(s, m1, e, types)

RECURSIVE AddEachFlat(_, _, _, _)
AddEachFlat(s, m, es, types) ==
  IF es = <<>> THEN m
  ELSE AddEachFlat(s, AddEntityToMessageFlat(s, m, Head(es), types), Tail(es), types)

RECURSIVE AddEachMap(_, _, _, _, _, _)
AddEachMap(s, m, es, types, full, ub) ==
  IF es = <<>> THEN m
  ELSE AddEachMap(s, AddEntityToMessageMap(s, m, Head(es), types, full, ub),
                  Tail(es), types, full, ub)

\* The three loops of ChangedState, in their order.
ChangedEntities(s) ==
  SetToSeq(s.newlyCreatedEntities) \o SetToSeq(s.toRemoveEntities)
    \o SetToSeq(s.modifiedComponents)

ChangedStateFlat(s) == AddEachFlat(s, <<>>, ChangedEntities(s), {})

\* AddEntityToMessage is called with its default arguments: every type, and
\* not the full state.
ChangedStateMap(s, m, ub) == AddEachMap(s, m, ChangedEntities(s), {}, FALSE, ub)

\* The entities of the index that pass the entity filter, in iteration order.
Selected(keys, ents) == SelectSeq(keys, LAMBDA e : ents = {} \/ e \in ents)

StateFlat(s, ents, types) ==
  AddEachFlat(s, <<>>, Selected(SetToSeq(DOMAIN s.entityComponents), ents), types)

(***************************************************************************)
(* The sharded build of the map-form State.                                *)
(***************************************************************************)
RECURSIVE ThreadLoadLoop(_, _, _, _, _, _, _)
\* The for loop of CalculateStateThreadLoad; startPos is the position of
\* startIt in the iteration order keys.
ThreadLoadLoop(keys, its, startPos, numComponents, componentsPerThread, i, numThreads) ==
  IF i >= numThreads THEN its
  ELSE LET left == numComponents - componentsPerThread
       IN IF left <= 0 THEN Append(its, EndIt)
          ELSE ThreadLoadLoop(keys, Append(its, keys[startPos + componentsPerThread]),
                              startPos + componentsPerThread, left,
                              componentsPerThread, i + 1, numThreads)

\* h is std::thread::hardware_concurrency().
CalculateStateThreadLoad(s, h) ==
  IF ~s.entityComponentsDirty THEN s
  ELSE LET keys == SetToSeq(DOMAIN s.entityComponents)
           numComponents == Len(keys)
           numThreads == Min(numComponents, h)
           componentsPerThread ==
             IF numThreads = 0 THEN 0
             ELSE (numComponents + numThreads - 1) \div numThreads
           begin == IF keys = <<>> THEN EndIt ELSE keys[1]
       IN [s EXCEPT !.entityComponentsDirty = FALSE,
                    !.entityComponentIterators =
                      ThreadLoadLoop(keys, <<begin>>, 1, numComponents,
                                     componentsPerThread, 0, numThreads)]

\* The position an iterator stands at in the iteration order.
PosOf(keys, it) ==
  IF it = EndIt \/ ~(\E i \in 1 .. Len(keys) : keys[i] = it) THEN Len(keys) + 1
  ELSE CHOOSE i \in 1 .. Len(keys) : keys[i] = it

\* The keys a worker walks from itStart up to itEnd.
ShardKeys(keys, itStart, itEnd) ==
  SubSeq(keys, PosOf(keys, itStart), PosOf(keys, itEnd) - 1)

\* The merge of one worker's map into the result, under stateMapMutex.
MergeThreadMap(m, threadMap) ==
  [m EXCEPT !.entities =
     [e \in (DOMAIN @) \cup (DOMAIN threadMap.entities) |->
        IF Has(threadMap.entities, e) THEN threadMap.entities[e] ELSE @[e]]]

RECURSIVE RunWorkers(_, _, _, _, _, _, _)
\* The workers' results merged in the order of their shards.
RunWorkers(s, m, i, ents, types, full, ub) ==
  IF i >= Len(s.entityComponentIterators) THEN m
  ELSE LET keys == SetToSeq(DOMAIN s.entityComponents)
           shard == ShardKeys(keys, s.entityComponentIterators[i],
                              s.entityComponentIterators[i + 1])
           threadMap == AddEachMap(s, EmptyStateMap, Selected(shard, ents),
                                   types, full, ub)
       IN RunWorkers(s, MergeThreadMap(m, threadMap), i + 1, ents, types, full, ub)

StateMap(s, m, ents, types, full, ub) ==
  LET s1 == CalculateStateThreadLoad(s, HardwareConcurrency)
  IN Done(s1, RunWorkers(s1, m, 1, ents, types, full, ub))

(***************************************************************************)
(* SetState: the application of a message.                                 *)
(***************************************************************************)
\* The body of the component loop of the flat form.
ApplyCompFlat(s, entity, c) ==
  IF c.component = <<>> THEN s
  ELSE IF ~FactoryHasType(c.type)
       THEN [s EXCEPT !.printedCompsFlat = @ \cup {c.type}]
  ELSE LET newComp == Deserialize(c.component)
           s1 == RemoveComponent(s, entity, c.type).st
       IN IF c.remove THEN s1
          ELSE IF ComponentImplementation(s1, entity, c.type) = NullComp
               THEN CreateComponentImplementation(s1, entity, c.type, newComp).st
          ELSE s1

RECURSIVE ApplyCompsFlat(_, _, _)
ApplyCompsFlat(s, entity, cs) ==
  IF cs = <<>> THEN s
  ELSE ApplyCompsFlat(ApplyCompFlat(s, entity, Head(cs)), entity, Tail(cs))

RECURSIVE SetStateFlat(_, _)
SetStateFlat(s, m) ==
  IF m = <<>> \/ s.crashed THEN s
  ELSE LET entityMsg == Head(m)
           entity == entityMsg.id
           s1 == IF entityMsg.remove THEN RequestRemoveEntity(s, entity, TRUE)
                 ELSE ApplyCompsFlat(
                        IF ~HasEntity(s, entity)
                        THEN CreateEntityImplementation(s, entity) ELSE s,
                        entity, entityMsg.components)
       IN SetStateFlat(s1, Tail(m))

\* The body of the component loop of the map form; key is the key of the
\* component in the entity's map.
ApplyCompMap(s, entity, key, c, oneTime) ==
  IF ~FactoryHasType(c.type)
  THEN [s EXCEPT !.printedCompsMap = @ \cup {c.type}]
  ELSE IF c.remove THEN RemoveComponent(s, entity, key).st
  ELSE IF ComponentImplementation(s, entity, key) = NullComp
       THEN CreateComponentImplementation(s, entity, c.type,
                                          Deserialize(c.component)).st
  ELSE SetChanged(
         [s EXCEPT !.entityCompStorage =
            Put(@, entity, Put(@[entity], key, Deserialize(c.component)))],
         entity, key,
         IF oneTime THEN "OneTimeChange" ELSE "PeriodicChange")

RECURSIVE ApplyCompsMap(_, _, _, _, _)
ApplyCompsMap(s, entity, comps, keys, oneTime) ==
  IF keys = <<>> THEN s
  ELSE ApplyCompsMap(ApplyCompMap(s, entity, Head(keys), comps[Head(keys)], oneTime),
                     entity, comps, Tail(keys), oneTime)

RECURSIVE ApplyEntitiesMapAlwaysCreates(_, _, _)
\* The entity loop of the map form without the HasEntity test before
\* CreateEntityImplementation.
ApplyEntitiesMapAlwaysCreates(s, m, keys) ==
  IF keys = <<>> \/ s.crashed THEN s
  ELSE LET entityMsg == m.entities[Head(keys)]
           entity == entityMsg.id
           s1 == IF entityMsg.remove THEN RequestRemoveEntity(s, entity, TRUE)
                 ELSE ApplyCompsMap(
                        CreateEntityImplementation(s, entity),
                        entity, entityMsg.components,
                        SetToSeq(DOMAIN entityMsg.components),
                        m.has_one_time_component_changes)
       IN ApplyEntitiesMapAlwaysCreates(s1, m, Tail(keys))

RECURSIVE ApplyEntitiesMap(_, _, _)
ApplyEntitiesMap(s, m, keys) ==
  IF keys = <<>> \/ s.crashed THEN s
  ELSE LET entityMsg == m.entities[Head(keys)]
           entity == entityMsg.id
           s1 == IF entityMsg.remove THEN RequestRemoveEntity(s, entity, TRUE)
                 ELSE ApplyCompsMap(
                        IF ~HasEntity(s, entity)
                        THEN CreateEntityImplementation(s, entity) ELSE s,
                        entity, entityMsg.components,
                        SetToSeq(DOMAIN entityMsg.components),
                        m.has_one_time_component_changes)
       IN ApplyEntitiesMap(s1, m, Tail(keys))

SetStateMap(s, m) == ApplyEntitiesMap(s, m, SetToSeq(DOMAIN m.entities))

(***************************************************************************)
(* Inputs of the operations.                                               *)
(***************************************************************************)
\* Entity arguments: ids that CreateEntity can have handed out.
EntityArgs == 1 .. MaxEntities
LedgerEntityArgs == 1 .. MaxLedgerEntities
\* The keys of the views systems register: non-empty sets of known types.
ViewKeys == (SUBSET RegisteredTypes) \ {{}}
ChangeArgs == {"NoChange", "PeriodicChange", "OneTimeChange"}
\* The texts of the payloads P, the empty text and the blank.
ByteStrings(P) == {<<>>, <<Blank>>} \cup {Serialize(p) : p \in P}
CompMsgs(T, B) == {CompMsg(t, b, rm) : t \in T, b \in B, rm \in BOOLEAN}

\* Flat messages of one entity entry with at most one component entry of C.
FlatMsgs(E, C) ==
  {<<[id |-> e, remove |-> TRUE, components |-> <<>>]>> : e \in E}
  \cup {<<[id |-> e, remove |-> FALSE, components |-> cs]>> :
          e \in E, cs \in {<<>>} \cup {<<c>> : c \in C}}

\* Map messages of one entity entry with at most one component entry of C,
\* keyed by the entry's id and the component's type.
MapMsgs(E, C) ==
  {[entities |-> Put(EmptyMap, e, [id |-> e, remove |-> TRUE, components |-> EmptyMap]),
    has_one_time_component_changes |-> o] : e \in E, o \in BOOLEAN}
  \cup {[entities |-> Put(EmptyMap, e, [id |-> e, remove |-> FALSE, components |-> cs]),
         has_one_time_component_changes |-> o] :
          e \in E, o \in BOOLEAN,
          cs \in {EmptyMap} \cup {Put(EmptyMap, c.type, c) : c \in C}}

\* The component entries the ledger specification applies: registered
\* types, one payload value.
LedgerCompMsgs == CompMsgs(RegisteredTypes, {<<MaxPayload>>})

(***************************************************************************)
(* The state machine.                                                      *)
(***************************************************************************)
Init ==
  /\ entities = EmptyGraph
  /\ entityCompStorage = EmptyMap
  /\ createdCompTypes = {}
  /\ periodicChangedComponents = EmptyMap
  /\ oneTimeChangedComponents = EmptyMap
  /\ newlyCreatedEntities = {}
  /\ toRemoveEntities = {}
  /\ modifiedComponents = {}
  /\ removeAllEntities = FALSE
  /\ entityComponentsDirty = TRUE
  /\ entityComponents = EmptyMap
  /\ entityComponentIterators = <<>>
  /\ views = {}
  /\ descendantCache = EmptyMap
  /\ entityCount = 0
  /\ removedComponents = EmptyMap
  /\ printedCompsFlat = {}
  /\ printedCompsMap = {}
  /\ crashed = FALSE
  /\ everEntities = {}
  /\ lastReturned = kNullEntity
  /\ op = "Init"
  /\ ret = "none"
  /\ msg = "none"
  /\ workers = <<>>
  /\ threads = [t \in Threads |-> Idle]

\* One call from the owning thread: the manager becomes s, the call returned
\* r and produced the message m.  Every action is a call made while the
\* process is alive and the owning thread is not waiting in State for its
\* workers.
Call(name, s, r, m) ==
  /\ workers = <<>>
  /\ UNCHANGED <<workers, threads>>
  /\ Install(s)
  /\ lastReturned' = IF name = "CreateEntity" THEN r ELSE lastReturned
  /\ op' = name
  /\ ret' = r
  /\ msg' = m

\* CreateEntity while the counter is below n.
ActCreateEntity(n) ==
  /\ ~crashed
  /\ entityCount < n
  /\ LET r == CreateEntity(Self) IN Call("CreateEntity", r.st, r.ret, "none")

\* CreateEntity with no bound on the counter but its width.
ActCreateEntityWide ==
  /\ ~crashed
  /\ LET r == CreateEntity(Self) IN Call("CreateEntity", r.st, r.ret, "none")

ActSetEntityCreateOffset ==
  /\ ~crashed
  /\ \E offset \in IdSpace :
       Call("SetEntityCreateOffset", SetEntityCreateOffset(Self, offset), offset, "none")

ActClearNewlyCreatedEntities ==
  /\ ~crashed
  /\ Call("ClearNewlyCreatedEntities", ClearNewlyCreatedEntities(Self), "none", "none")

ActClearRemovedComponents ==
  /\ ~crashed
  /\ Call("ClearRemovedComponents", ClearRemovedComponents(Self), "none", "none")

\* ret is the pair of the arguments.
ActRequestRemoveEntity(E) ==
  /\ ~crashed
  /\ \E e \in E, recursive \in BOOLEAN :
       Call("RequestRemoveEntity", RequestRemoveEntity(Self, e, recursive),
            <<e, recursive>>, "none")

ActRequestRemoveEntities ==
  /\ ~crashed
  /\ Call("RequestRemoveEntities", RequestRemoveEntities(Self), "none", "none")

ActProcessRemoveEntityRequests ==
  /\ ~crashed
  /\ Call("ProcessRemoveEntityRequests", ProcessRemoveEntityRequests(Self), "none", "none")

ActCreateComponent(E, T, P) ==
  /\ ~crashed
  /\ \E e \in E, t \in T, data \in P :
       LET r == CreateComponentImplementation(Self, e, t, data)
       IN Call("CreateComponentImplementation", r.st, r.ret, "none")

ActRemoveComponent(E, T) ==
  /\ ~crashed
  /\ \E e \in E, t \in T :
       LET r == RemoveComponent(Self, e, t)
       IN Call("RemoveComponent", r.st, r.ret, "none")

ActSetChanged(E, T) ==
  /\ ~crashed
  /\ \E e \in E, t \in T, c \in ChangeArgs :
       Call("SetChanged", SetChanged(Self, e, t, c), "none", "none")

ActSetAllComponentsUnchanged ==
  /\ ~crashed
  /\ Call("SetAllComponentsUnchanged", SetAllComponentsUnchanged(Self), "none", "none")

ActSetParentEntity(E) ==
  /\ ~crashed
  /\ \E child \in E, parent \in {kNullEntity} \cup E :
       LET r == SetParentEntity(Self, child, parent)
       IN Call("SetParentEntity", r.st, r.ret, "none")

\* ret is the pair of the argument and the returned set.
ActDescendants(E) ==
  /\ ~crashed
  /\ \E e \in E :
       LET r == Descendants(Self, e)
       IN Call("Descendants", r.st, <<e, r.ret>>, "none")

ActEntityHasComponent(E, T) ==
  /\ ~crashed
  /\ \E e \in E, t \in T :
       LET r == EntityHasComponent(Self, e, t)
       IN Call("EntityHasComponent", r.st, r.ret, "none")

ActAddView ==
  /\ ~crashed
  /\ \E key \in ViewKeys :
       LET r == AddView(Self, key, 1)
       IN Call("AddView", r.st, r.ret, "none")

ActSetStateFlat(M) ==
  /\ ~crashed
  /\ \E m \in M : Call("SetStateFlat", SetStateFlat(Self, m), "none", "none")

ActSetStateMap(M) ==
  /\ ~crashed
  /\ \E m \in M : Call("SetStateMap", SetStateMap(Self, m), "none", "none")

\* A message of one entity entry with the component entries cs, in the
\* flat form and in the map form (components keyed by their type).
FlatMsgOf(e, rmE, cs) == <<[id |-> e, remove |-> rmE, components |-> cs]>>
MapMsgOf(e, rmE, cs, o) ==
  [entities |->
     Put(EmptyMap, e,
         [id |-> e, remove |-> rmE,
          components |->
            [k \in {cs[i].type : i \in 1 .. Len(cs)} |->
               cs[CHOOSE i \in 1 .. Len(cs) : cs[i].type = k]]]),
   has_one_time_component_changes |-> o]

\* SetState, flat form, of an entry without components (a removal or not)
\* or of an entry with one component; ret is the message applied.
ActSetStateFlatOf(E, T, B) ==
  /\ ~crashed
  /\ \E e \in E :
       \/ \E rmE \in BOOLEAN :
            LET m == FlatMsgOf(e, rmE, <<>>)
            IN Call("SetStateFlat", SetStateFlat(Self, m), m, "none")
       \/ \E t \in T, b \in B, rm \in BOOLEAN :
            LET m == FlatMsgOf(e, FALSE, <<CompMsg(t, b, rm)>>)
            IN Call("SetStateFlat", SetStateFlat(Self, m), m, "none")

\* SetState, map form, of the same entries; ret is the message applied.
ActSetStateMapOf(E, T, B) ==
  /\ ~crashed
  /\ \E e \in E, o \in BOOLEAN :
       \/ \E rmE \in BOOLEAN :
            LET m == MapMsgOf(e, rmE, <<>>, o)
            IN Call("SetStateMap", SetStateMap(Self, m), m, "none")
       \/ \E t \in T, b \in B, rm \in BOOLEAN :
            LET m == MapMsgOf(e, FALSE, <<CompMsg(t, b, rm)>>, o)
            IN Call("SetStateMap", SetStateMap(Self, m), m, "none")

ActChangedStateFlat ==
  /\ ~crashed
  /\ Call("ChangedStateFlat", Self, "none", ChangedStateFlat(Self))

ActChangedStateMap ==
  /\ ~crashed
  /\ \E ub \in UBOutcomes :
       Call("ChangedStateMap", Self, "none", ChangedStateMap(Self, EmptyStateMap, ub))

ActStateFlat ==
  /\ ~crashed
  /\ Call("StateFlat", Self, "none", StateFlat(Self, {}, {}))

\* ret is whether the full state was asked for.
ActStateMap ==
  /\ ~crashed
  /\ \E full \in BOOLEAN, ub \in UBOutcomes :
       LET r == StateMap(Self, EmptyStateMap, {}, {}, full, ub)
       IN Call("StateMap", r.st, full, r.ret)

\* State, map form, up to the spawning of the workers: the boundaries are
\* computed and one worker is started for every pair of consecutive
\* boundaries; the caller's message is still empty.  With no worker to
\* start the call has returned.  ret is <<_full, the outcome of line 934>>.
ActStateMapSpawn ==
  /\ ~crashed
  /\ workers = <<>>
  /\ \E full \in BOOLEAN, ub \in UBOutcomes :
       LET s1 == CalculateStateThreadLoad(Self, HardwareConcurrency)
           its == s1.entityComponentIterators
           numThreads == Len(its) - 1
       IN /\ Install(s1)
          /\ workers' = [i \in 1 .. numThreads |->
                           [pc |-> "build", itStart |-> its[i],
                            itEnd |-> its[i + 1], threadMap |-> EmptyStateMap]]
          /\ op' = IF numThreads = 0 THEN "StateMapJoin" ELSE "StateMapSpawn"
          /\ ret' = <<full, ub>>
          /\ msg' = EmptyStateMap
          /\ UNCHANGED <<lastReturned, threads>>

\* A worker walks its shard and fills its own threadMap.
ActWorkerBuild ==
  /\ ~crashed
  /\ \E i \in DOMAIN workers :
       LET w == workers[i]
           shard == ShardKeys(SetToSeq(DOMAIN entityComponents),
                              w.itStart, w.itEnd)
       IN /\ w.pc = "build"
          /\ workers' =
               [workers EXCEPT ![i] =
                  [pc |-> "merge", itStart |-> w.itStart, itEnd |-> w.itEnd,
                   threadMap |-> AddEachMap(Self, EmptyStateMap,
                                            Selected(shard, {}), {},
                                            ret[1], ret[2])]]
          /\ op' = "WorkerBuild"
          /\ UNCHANGED <<ecmVars, everEntities, lastReturned, ret, msg, threads>>

\* A worker takes stateMapMutex, copies its entries into the caller's
\* message and ends.
ActWorkerMerge ==
  /\ ~crashed
  /\ \E i \in DOMAIN workers :
       LET w == workers[i]
       IN /\ w.pc = "merge"
          /\ msg' = MergeThreadMap(msg, w.threadMap)
          /\ workers' =
               [workers EXCEPT ![i] =
                  [pc |-> "done", itStart |-> w.itStart, itEnd |-> w.itEnd,
                   threadMap |-> w.threadMap]]
          /\ op' = "WorkerMerge"
          /\ UNCHANGED <<ecmVars, everEntities, lastReturned, ret, threads>>

\* Every worker has been joined and State returns.
ActStateMapJoin ==
  /\ ~crashed
  /\ workers # <<>>
  /\ \A i \in DOMAIN workers : workers[i].pc = "done"
  /\ workers' = <<>>
  /\ op' = "StateMapJoin"
  /\ UNCHANGED <<ecmVars, everEntities, lastReturned, ret, msg, threads>>

(***************************************************************************)
(* Specifications: the ledger operations, the entity graph, the id         *)
(* counter, and the messages.                                              *)
(***************************************************************************)
NextLedger ==
  \/ ActCreateEntity(MaxLedgerEntities)
  \/ ActCreateComponent(LedgerEntityArgs, RegisteredTypes, {MaxPayload})
  \/ ActRemoveComponent(LedgerEntityArgs, RegisteredTypes)
  \/ ActSetChanged(LedgerEntityArgs, RegisteredTypes)
  \/ ActSetAllComponentsUnchanged
  \/ ActClearNewlyCreatedEntities
  \/ ActRequestRemoveEntity(LedgerEntityArgs)
  \/ ActRequestRemoveEntities
  \/ ActProcessRemoveEntityRequests
  \/ ActSetStateFlat(FlatMsgs(LedgerEntityArgs, LedgerCompMsgs))
  \/ ActSetStateMap(MapMsgs(LedgerEntityArgs, LedgerCompMsgs))
SpecLedger == Init /\ [][NextLedger]_vars

NextGraph ==
  \/ ActCreateEntity(MaxEntities)
  \/ ActSetParentEntity(EntityArgs)
  \/ ActRequestRemoveEntity(EntityArgs)
  \/ ActProcessRemoveEntityRequests
  \/ ActDescendants(EntityArgs)
SpecGraph == Init /\ [][NextGraph]_vars

NextCounter ==
  \/ ActCreateEntityWide
  \/ ActSetEntityCreateOffset
  \/ ActSetStateFlat(FlatMsgs(EntityArgs, {}))
  \/ ActRequestRemoveEntity(EntityArgs)
  \/ ActRequestRemoveEntities
  \/ ActProcessRemoveEntityRequests
SpecCounter == Init /\ [][NextCounter]_vars

NextStorage ==
  \/ ActCreateEntity(MaxEntities)
  \/ ActCreateComponent(EntityArgs, AllTypes, {MaxPayload})
  \/ ActRemoveComponent(EntityArgs, AllTypes)
  \/ ActRequestRemoveEntity(EntityArgs)
  \/ ActRequestRemoveEntities
  \/ ActProcessRemoveEntityRequests
  \/ ActSetStateFlat(FlatMsgs(EntityArgs, LedgerCompMsgs))
  \/ ActSetStateMap(MapMsgs(EntityArgs, LedgerCompMsgs))
SpecStorage == Init /\ [][NextStorage]_vars

NextMsg ==
  \/ ActCreateEntity(MaxLedgerEntities)
  \/ ActCreateComponent(LedgerEntityArgs, RegisteredTypes, Payloads)
  \/ ActRemoveComponent(LedgerEntityArgs, RegisteredTypes)
  \/ ActSetChanged(LedgerEntityArgs, RegisteredTypes)
  \/ ActSetAllComponentsUnchanged
  \/ ActClearNewlyCreatedEntities
  \/ ActClearRemovedComponents
  \/ ActRequestRemoveEntity(LedgerEntityArgs)
  \/ ActProcessRemoveEntityRequests
  \/ ActChangedStateFlat
  \/ ActChangedStateMap
  \/ ActStateFlat
  \/ ActStateMap
SpecMsg == Init /\ [][NextMsg]_vars

NextRemoval ==
  \/ ActCreateEntity(MaxEntities)
  \/ ActSetParentEntity(EntityArgs)
  \/ ActCreateComponent(EntityArgs, RegisteredTypes, {MaxPayload})
  \/ ActEntityHasComponent(EntityArgs, RegisteredTypes)
  \/ ActAddView
  \/ ActSetStateFlat(FlatMsgs(EntityArgs, {}))
  \/ ActRequestRemoveEntity(EntityArgs)
  \/ ActRequestRemoveEntities
  \/ ActProcessRemoveEntityRequests
SpecRemoval == Init /\ [][NextRemoval]_vars

NextApply ==
  \/ ActCreateEntity(MaxLedgerEntities)
  \/ ActSetStateFlatOf(LedgerEntityArgs, AllTypes, ByteStrings({MaxPayload}))
  \/ ActSetStateMapOf(LedgerEntityArgs, AllTypes, ByteStrings({MaxPayload}))
  \/ ActSetAllComponentsUnchanged
  \/ ActClearNewlyCreatedEntities
  \/ ActProcessRemoveEntityRequests
SpecApply == Init /\ [][NextApply]_vars

NextShards ==
  \/ ActCreateEntity(MaxEntities)
  \/ ActCreateComponent(EntityArgs, RegisteredTypes, {MaxPayload})
  \/ ActRemoveComponent(EntityArgs, RegisteredTypes)
  \/ ActEntityHasComponent(EntityArgs, RegisteredTypes)
  \/ ActRequestRemoveEntity(EntityArgs)
  \/ ActProcessRemoveEntityRequests
  \/ ActStateMap
SpecShards == Init /\ [][NextShards]_vars

\* The map-form State with its worker threads, on an index of up to
\* MaxEntities entities.
NextWorkers ==
  \/ ActCreateEntity(MaxEntities)
  \/ ActCreateComponent(EntityArgs, RegisteredTypes, {MaxPayload})
  \/ ActEntityHasComponent(EntityArgs, RegisteredTypes)
  \/ ActRequestRemoveEntity(EntityArgs)
  \/ ActSetAllComponentsUnchanged
  \/ ActStateMapSpawn
  \/ ActWorkerBuild
  \/ ActWorkerMerge
  \/ ActStateMapJoin
SpecWorkers == Init /\ [][NextWorkers]_vars

(***************************************************************************)
(* The mutexes.  For every function that touches newlyCreatedEntities,     *)
(* toRemoveEntities or removeAllEntities: the locks it takes and the       *)
(* accesses it makes, in the order of its code, each with its line.        *)
(***************************************************************************)
LockStep(mutex, ln) == [k |-> "lock", x |-> mutex, line |-> ln]
UnlockStep(mutex, ln) == [k |-> "unlock", x |-> mutex, line |-> ln]
ReadStep(field, ln) == [k |-> "read", x |-> field, line |-> ln]
WriteStep(field, ln) == [k |-> "write", x |-> field, line |-> ln]

\* The mutex declared to protect a field.
GuardOf(field) ==
  IF field = "newlyCreatedEntities" THEN "entityCreatedMutex"
  ELSE "entityRemoveMutex"

GuardedFunctions ==
  {"CreateEntityImplementation", "ClearNewlyCreatedEntities",
   "RequestRemoveEntity", "RequestRemoveEntities",
   "ProcessRemoveEntityRequests(all)", "ProcessRemoveEntityRequests",
   "IsNewEntity", "IsMarkedForRemoval", "HasNewEntities",
   "HasEntitiesMarkedForRemoval", "AddEntityToMessage(flat)",
   "AddEntityToMessage(map)", "ChangedState(flat)", "ChangedState(map)",
   "AddModifiedComponent"}

\* A lock_guard is released where its scope ends.  ChangedState calls
\* AddEntityToMessage inside its loops; ProcessRemoveEntityRequests has one
\* script for each side of its test of removeAllEntities.
Script(fn) ==
  CASE fn = "CreateEntityImplementation" ->
         <<LockStep("entityCreatedMutex", 209),
           WriteStep("newlyCreatedEntities", 210),
           UnlockStep("entityCreatedMutex", 211)>>
    [] fn = "ClearNewlyCreatedEntities" ->
         <<LockStep("entityCreatedMutex", 229),
           WriteStep("newlyCreatedEntities", 230),
           UnlockStep("entityCreatedMutex", 236)>>
    [] fn = "RequestRemoveEntity" ->
         <<LockStep("entityRemoveMutex", 273),
           WriteStep("toRemoveEntities", 274),
           UnlockStep("entityRemoveMutex", 276)>>
    [] fn = "RequestRemoveEntities" ->
         <<LockStep("entityRemoveMutex", 291),
           WriteStep("removeAllEntities", 292),
           UnlockStep("entityRemoveMutex", 293)>>
    [] fn = "ProcessRemoveEntityRequests(all)" ->
         <<LockStep("entityRemoveMutex", 301),
           ReadStep("removeAllEntities", 303),
           WriteStep("removeAllEntities", 306),
           WriteStep("toRemoveEntities", 309),
           UnlockStep("entityRemoveMutex", 354)>>
    [] fn = "ProcessRemoveEntityRequests" ->
         <<LockStep("entityRemoveMutex", 301),
           ReadStep("removeAllEntities", 303),
           ReadStep("toRemoveEntities", 322),
           WriteStep("toRemoveEntities", 349),
           UnlockStep("entityRemoveMutex", 354)>>
    [] fn = "IsNewEntity" ->
         <<LockStep("entityCreatedMutex", 440),
           ReadStep("newlyCreatedEntities", 441),
           UnlockStep("entityCreatedMutex", 443)>>
    [] fn = "IsMarkedForRemoval" ->
         <<LockStep("entityRemoveMutex", 448),
           ReadStep("removeAllEntities", 449),
           ReadStep("toRemoveEntities", 453),
           UnlockStep("entityRemoveMutex", 455)>>
    [] fn = "HasNewEntities" ->
         <<LockStep("entityCreatedMutex", 493),
           ReadStep("newlyCreatedEntities", 494),
           UnlockStep("entityCreatedMutex", 495)>>
    [] fn = "HasEntitiesMarkedForRemoval" ->
         <<LockStep("entityRemoveMutex", 500),
           ReadStep("removeAllEntities", 501),
           ReadStep("toRemoveEntities", 502),
           UnlockStep("entityRemoveMutex", 503)>>
    [] fn = "AddEntityToMessage(flat)" ->
         <<ReadStep("toRemoveEntities", 826)>>
    [] fn = "AddEntityToMessage(map)" ->
         <<ReadStep("toRemoveEntities", 877)>>
    [] fn = "ChangedState(flat)" ->
         <<ReadStep("newlyCreatedEntities", 985),
           ReadStep("toRemoveEntities", 826),
           ReadStep("toRemoveEntities", 991),
           ReadStep("toRemoveEntities", 826)>>
    [] fn = "ChangedState(map)" ->
         <<ReadStep("newlyCreatedEntities", 1010),
           ReadStep("toRemoveEntities", 877),
           ReadStep("toRemoveEntities", 1016),
           ReadStep("toRemoveEntities", 877)>>
    [] fn = "AddModifiedComponent" ->
         <<ReadStep("newlyCreatedEntities", 1441),
           ReadStep("toRemoveEntities", 1443)>>
    [] OTHER -> <<>>

\* The step a thread is about to make, or none.
NoStep == [k |-> "none", x |-> "none", line |-> 0]
NextStep(t) ==
  IF threads[t].pc \in 1 .. Len(Script(threads[t].fn))
  THEN Script(threads[t].fn)[threads[t].pc]
  ELSE NoStep

\* A thread enters one of the functions.
ActThreadCall ==
  /\ ~crashed
  /\ \E t \in Threads, f \in GuardedFunctions :
       /\ threads[t].fn = "idle"
       /\ threads' = [threads EXCEPT ![t] = [fn |-> f, pc |-> 1, held |-> {}]]
  /\ UNCHANGED <<ecmVars, everEntities, lastReturned, op, ret, msg, workers>>

\* A thread makes its next step: a lock waits until no other thread holds
\* the mutex.
ActThreadStep ==
  /\ ~crashed
  /\ \E t \in Threads :
       LET st == NextStep(t)
           th == threads[t]
       IN /\ st.k # "none"
          /\ st.k = "lock" => \A u \in Threads : st.x \notin threads[u].held
          /\ threads' =
               [threads EXCEPT ![t] =
                  [fn |-> th.fn, pc |-> th.pc + 1,
                   held |-> IF st.k = "lock" THEN th.held \cup {st.x}
                            ELSE IF st.k = "unlock" THEN th.held \ {st.x}
                            ELSE th.held]]
  /\ UNCHANGED <<ecmVars, everEntities, lastReturned, op, ret, msg, workers>>

\* A thread returns from its function.
ActThreadReturn ==
  /\ ~crashed
  /\ \E t \in Threads :
       /\ threads[t].fn # "idle"
       /\ NextStep(t).k = "none"
       /\ threads' = [threads EXCEPT ![t] = Idle]
  /\ UNCHANGED <<ecmVars, everEntities, lastReturned, op, ret, msg, workers>>

NextLocks ==
  \/ ActThreadCall
  \/ ActThreadStep
  \/ ActThreadReturn
SpecLocks == Init /\ [][NextLocks]_vars

(***************************************************************************)
(* The views, as threads look them up: FindView and, when it found        *)
(* nothing, AddView with a view the thread has made.  Each of the two      *)
(* calls holds viewsMutex from its first statement to its return, so each  *)
(* is one step.  A thread is at pc 1 before FindView, at 2 before AddView  *)
(* and at 3 when it has its view.                                          *)
(***************************************************************************)
\* Any non-empty set of type ids can key a view.
WideViewKeys == (SUBSET AllTypes) \ {{}}

ActViewCall ==
  /\ ~crashed
  /\ \E t \in Threads, key \in WideViewKeys :
       /\ threads[t].fn = "idle"
       /\ threads' = [threads EXCEPT ![t] =
                        [fn |-> "View", pc |-> 1, held |-> {}, key |-> key,
                         found |-> NullView, got |-> NullView]]
  /\ UNCHANGED <<ecmVars, everEntities, lastReturned, op, ret, msg, workers>>

ActThreadFindView ==
  /\ ~crashed
  /\ \E t \in Threads :
       LET th == threads[t]
           v == FindView(Self, th.key)
       IN /\ th.fn = "View"
          /\ th.pc = 1
          /\ threads' = [threads EXCEPT ![t] =
                           [fn |-> "View", pc |-> IF v = NullView THEN 2 ELSE 3,
                            held |-> {}, key |-> th.key, found |-> v, got |-> v]]
  /\ UNCHANGED <<ecmVars, everEntities, lastReturned, op, ret, msg, workers>>

\* The view a thread makes carries the number of the thread.
ActThreadAddView ==
  /\ ~crashed
  /\ \E t \in Threads :
       LET th == threads[t]
           r == AddView(Self, th.key, t)
       IN /\ th.fn = "View"
          /\ th.pc = 2
          /\ Install(r.st)
          /\ threads' = [threads EXCEPT ![t] =
                           [fn |-> "View", pc |-> 3, held |-> {}, key |-> th.key,
                            found |-> th.found, got |-> r.ret]]
  /\ UNCHANGED <<lastReturned, op, ret, msg, workers>>

ActViewDone ==
  /\ ~crashed
  /\ \E t \in Threads :
       /\ threads[t].fn = "View"
       /\ threads[t].pc = 3
       /\ threads' = [threads EXCEPT ![t] = Idle]
  /\ UNCHANGED <<ecmVars, everEntities, lastReturned, op, ret, msg, workers>>

NextViews ==
  \/ ActViewCall
  \/ ActThreadFindView
  \/ ActThreadAddView
  \/ ActViewDone
SpecViews == Init /\ [][NextViews]_vars

(***************************************************************************)
(* The claims.                                                           *)
(***************************************************************************)
\* C1: no (entity, type) pair is in both oneTimeChangedComponents and
\* periodicChangedComponents; in particular a pair whose ComponentState is
\* OneTimeChange is not in periodicChangedComponents.
C1_ChangeSetsDisjoint ==
  \A t \in AllTypes, e \in IdSpace :
    /\ ~(e \in At(oneTimeChangedComponents, t) /\ e \in At(periodicChangedComponents, t))
    /\ (ComponentState(Self, e, t) = "OneTimeChange"
          => e \notin At(periodicChangedComponents, t))

\* C2: an entity in newlyCreatedEntities or in toRemoveEntities is not in
\* modifiedComponents.
C2_ModifiedNeitherNewNorRemoved ==
  modifiedComponents \cap (newlyCreatedEntities \cup toRemoveEntities) = {}

RECURSIVE ReachableFrom(_, _)
\* The least set that holds S and the children of its members.
ReachableFrom(g, S) ==
  LET T == S \cup {c \in g.V : \E p \in S : <<p, c>> \in g.E}
  IN IF T = S THEN S ELSE ReachableFrom(g, T)

\* C3: Descendants(e) of an existing entity e returns exactly the entities
\* reachable from e along parent->child edges of the current graph, e
\* included, whatever calls preceded it.
C3_DescendantsOfCurrentGraph ==
  (op = "Descendants" /\ HasEntity(Self, ret[1]))
    => ret[2] = ReachableFrom(entities, {ret[1]})

\* C4: CreateEntity never returns an id that has been an entity of
\* this manager, and the ids it returns are strictly increasing.
C4_NeverReusedIncreasing ==
  [][op' = "CreateEntity"
       => /\ ret' \notin everEntities
          /\ (lastReturned # kNullEntity => ret' > lastReturned)]_vars

\* C5: a CreateEntity that cannot increment the counter without reaching or
\* passing the maximum returns the maximum and creates nothing, and no
\* CreateEntity creates entity kNullEntity.
C5_OverflowRefused ==
  [][op' = "CreateEntity"
       => /\ (entityCount + 1 >= MaxId
                => /\ ret' = MaxId
                   /\ entities' = entities
                   /\ newlyCreatedEntities' = newlyCreatedEntities
                   /\ entityCompStorage' = entityCompStorage)
          /\ kNullEntity \notin entities'.V]_vars

\* The component types of entity e, and their payloads.
TypesOf(s, e) == {t \in AllTypes : EntityHasComponentType(s, e, t)}
SameEntitiesAndComponents(a, b) ==
  /\ a.entities.V = b.entities.V
  /\ \A e \in a.entities.V :
       /\ TypesOf(a, e) = TypesOf(b, e)
       /\ \A t \in TypesOf(a, e) :
            ComponentImplementation(a, e, t) = ComponentImplementation(b, e, t)

\* C6: SetState(State(S)) on a fresh manager gives the entities of S, each
\* with the component types and payloads it has in S, in the flat form and
\* in the map form with full = true.
C6_RoundTrip ==
  ~crashed =>
    /\ SameEntitiesAndComponents(
         SetStateFlat(Fresh({}, {}), StateFlat(Self, {}, {})), Self)
    /\ SameEntitiesAndComponents(
         SetStateMap(Fresh({}, {}),
                     StateMap(Self, EmptyStateMap, {}, {}, TRUE, "nodePointers").ret),
         Self)

Reported == newlyCreatedEntities \cup toRemoveEntities \cup modifiedComponents

\* C7: the ChangedState message, flat or map, has an entry for every entity
\* in newlyCreatedEntities, toRemoveEntities and modifiedComponents.
C7_ChangedStateReportsAll ==
  /\ op = "ChangedStateFlat"
       => \A e \in Reported : \E i \in 1 .. Len(msg) : msg[i].id = e
  /\ op = "ChangedStateMap" => \A e \in Reported : Has(msg.entities, e)

\* C8: every entity entry a message holds for an entity of toRemoveEntities
\* has remove = true, in the flat and in the map form.
C8_RemovedEntitiesMarked ==
  /\ op \in {"ChangedStateFlat", "StateFlat"}
       => \A i \in 1 .. Len(msg) :
            msg[i].id \in toRemoveEntities => msg[i].remove
  /\ op \in {"ChangedStateMap", "StateMap"}
       => \A e \in DOMAIN msg.entities :
            e \in toRemoveEntities => msg.entities[e].remove

\* C9: with full = false, a component the entity has is written to the map
\* message exactly when its (entity, type) pair is in
\* oneTimeChangedComponents or periodicChangedComponents (entities with no
\* removed component, whose entries nothing else writes).
C9_WrittenIffChanged ==
  (op = "StateMap" /\ ret = FALSE)
    => \A e \in DOMAIN entityComponents :
         At(removedComponents, e) = {}
           => \A t \in entityComponents[e] :
                (Has(msg.entities, e) /\ Has(msg.entities[e].components, t))
                  <=> (\/ e \in At(oneTimeChangedComponents, t)
                       \/ e \in At(periodicChangedComponents, t))

\* C10: EntityHasComponentType(e, t) exactly when the storage holds a valid
\* payload for (e, t).
C10_IndexMatchesStorage ==
  \A e \in IdSpace, t \in AllTypes :
    EntityHasComponentType(Self, e, t)
      <=> ComponentImplementation(Self, e, t) # NullComp

\* Entity 1 has the component again after a removal while entity 2 has lost
\* its own.
C10_Witness ==
  /\ EntityHasComponentType(Self, 1, 1)
  /\ 1 \in At(removedComponents, 1)
  /\ HasEntity(Self, 2)
  /\ ~EntityHasComponentType(Self, 2, 1)
  /\ 1 \in At(removedComponents, 2)

\* C11: every entity with an entry in entityComponents is a vertex of the
\* entity graph.
C11_IndexWithinGraph ==
  \A e \in DOMAIN entityComponents : HasEntity(Self, e)

\* Entity 1 is gone after a removal that took the only component of the
\* manager with it, while entity 2 keeps the empty entry that
\* EntityHasComponent gave it.
C11_Witness ==
  /\ op = "ProcessRemoveEntityRequests"
  /\ 1 \in everEntities
  /\ ~HasEntity(Self, 1)
  /\ createdCompTypes # {}
  /\ HasEntity(Self, 2)
  /\ Has(entityComponents, 2)
  /\ entityComponents[2] = {}

\* C12: an entity stops existing only in a ProcessRemoveEntityRequests step
\* at which it is in toRemoveEntities or removeAllEntities is set;
\* RequestRemoveEntity and RequestRemoveEntities leave HasEntity and
\* EntityCount as they are and leave their target marked for removal, the
\* mark stays until ProcessRemoveEntityRequests, and after that step no
\* entity that was marked exists.
C12_RemovedOnlyByProcess ==
  [][/\ \A e \in entities.V :
          e \notin entities'.V
            => /\ op' = "ProcessRemoveEntityRequests"
               /\ (e \in toRemoveEntities \/ removeAllEntities)
     /\ (op' = "RequestRemoveEntity" /\ ~crashed')
          => /\ entities'.V = entities.V
             /\ ret'[1] \in toRemoveEntities' \/ removeAllEntities'
     /\ op' = "RequestRemoveEntities"
          => /\ entities'.V = entities.V
             /\ removeAllEntities'
     /\ op' # "ProcessRemoveEntityRequests"
          => /\ toRemoveEntities \subseteq toRemoveEntities'
             /\ removeAllEntities => removeAllEntities'
     /\ op' = "ProcessRemoveEntityRequests"
          => \A e \in IdSpace :
               IsMarkedForRemoval(Self, e) => e \notin entities'.V]_vars

\* Entity 2 was requested and removed on its own; entity 1, never marked,
\* is still there.
C12_Witness ==
  /\ op = "ProcessRemoveEntityRequests"
  /\ everEntities = {1, 2}
  /\ entities.V = {1}
  /\ Has(entityComponents, 1)

\* C13 as stated: after RequestRemoveEntity(e, recursive = true) followed by
\* ProcessRemoveEntityRequests, neither e nor a descendant of e at request
\* time exists, the entities outside toRemoveEntities still exist, and the
\* set of registered views is unchanged.
C13_RecursiveRemoval ==
  [][(/\ op = "RequestRemoveEntity"
      /\ ret[2]
      /\ ~crashed
      /\ op' = "ProcessRemoveEntityRequests")
       => /\ \A x \in ReachableFrom(entities, {ret[1]}) : x \notin entities'.V
          /\ \A x \in entities.V \ toRemoveEntities : x \in entities'.V
          /\ views' = views]_vars

\* C13 amended: the same, when no RequestRemoveEntities is pending
\* (removeAllEntities is false at the ProcessRemoveEntityRequests step).
C13_RecursiveRemovalNoRemoveAll ==
  [][(/\ op = "RequestRemoveEntity"
      /\ ret[2]
      /\ ~crashed
      /\ ~removeAllEntities
      /\ op' = "ProcessRemoveEntityRequests")
       => /\ \A x \in ReachableFrom(entities, {ret[1]}) : x \notin entities'.V
          /\ \A x \in entities.V \ toRemoveEntities : x \in entities'.V
          /\ views' = views]_vars

\* The recursive request for entity 1, parent of entity 2, has just
\* returned with a view registered and no removal of everything pending.
C13_Witness ==
  /\ op = "RequestRemoveEntity"
  /\ ret = <<1, TRUE>>
  /\ ~crashed
  /\ entities.E = {<<1, 2>>}
  /\ toRemoveEntities = {1, 2}
  /\ ~removeAllEntities
  /\ views # {}

\* C14: RequestRemoveEntities sets removeAllEntities, which stays set
\* through every operation until ProcessRemoveEntityRequests, and after
\* that step EntityCount() is 0, entityComponents and toRemoveEntities are
\* empty, removeAllEntities is false and no view is registered.
C14_RemoveAllClearsEverything ==
  [][/\ op' = "RequestRemoveEntities" => removeAllEntities'
     /\ (removeAllEntities /\ op' # "ProcessRemoveEntityRequests")
          => removeAllEntities'
     /\ (removeAllEntities /\ op' = "ProcessRemoveEntityRequests")
          => /\ EntityCount(Self') = 0
             /\ entityComponents' = EmptyMap
             /\ toRemoveEntities' = {}
             /\ ~removeAllEntities'
             /\ views' = {}]_vars

\* The removal of everything is pending, an individual request came after
\* it, and there are entities, index entries and a view to clear.
C14_Witness ==
  /\ removeAllEntities
  /\ op = "RequestRemoveEntity"
  /\ ~crashed
  /\ entities.V = {1, 2}
  /\ entityComponents # EmptyMap
  /\ toRemoveEntities # {}
  /\ views # {}


\* C15: for existing entities c and p with p # kNullEntity, ParentEntity(c)
\* is p after SetParentEntity(c, p); SetParentEntity(c, kNullEntity)
\* returns true and leaves ParentEntity(c) = kNullEntity.
C15_ParentAfterSetParent ==
  \A c \in entities.V :
    /\ \A p \in entities.V \ {kNullEntity} :
         ParentEntity(SetParentEntity(Self, c, p).st, c) = p
    /\ SetParentEntity(Self, c, kNullEntity).ret = TRUE
    /\ ParentEntity(SetParentEntity(Self, c, kNullEntity).st, c) = kNullEntity

\* SetParentEntity has returned true, entity 2 has the parent 1, and
\* entity 1 has none.
C15_Witness ==
  /\ op = "SetParentEntity"
  /\ ret = TRUE
  /\ entities.V = {1, 2}
  /\ ParentEntity(Self, 2) = 1
  /\ ParentEntity(Self, 1) = kNullEntity

\* C16: every entity has at most one incoming parent edge.
C16_AtMostOneParent ==
  \A v \in entities.V : Cardinality(AdjacentsTo(entities, v)) <= 1

\* Both entities have a parent, each the other one: every SetParentEntity
\* so far replaced what was there.
C16_Witness ==
  /\ op = "SetParentEntity"
  /\ entities.E = {<<1, 2>>, <<2, 1>>}


\* C17: while removedComponents holds type t for entity e (RemoveComponent(e, t)
\* has succeeded and ClearRemovedComponents has not run since), the message
\* of ChangedState() has an entity entry for e with a component entry of
\* type t, remove = true and an empty payload; the one blank that
\* SetRemovedComponentsMsgs writes as "empty data" is accepted as empty.
C17_RemovedComponentReported ==
  op = "ChangedStateFlat"
    => \A e \in DOMAIN removedComponents :
         \A t \in removedComponents[e] :
           \E i \in 1 .. Len(msg) :
             /\ msg[i].id = e
             /\ \E j \in 1 .. Len(msg[i].components) :
                  \/ msg[i].components[j] = CompMsg(t, <<>>, TRUE)
                  \/ msg[i].components[j] = CompMsg(t, <<Blank>>, TRUE)


\* C18: RemoveComponent(e, t) returns true exactly when e exists and the
\* storage holds a component of type t for it; when it returns false the
\* manager is as it was before the call.
C18_RemoveComponentRefusal ==
  \A e \in IdSpace, t \in AllTypes :
    LET r == RemoveComponent(Self, e, t)
    IN /\ r.ret <=> (HasEntity(Self, e) /\ ComponentImplementation(Self, e, t) # NullComp)
       /\ ~r.ret => r.st = Self

\* The component of entity 1 was removed before, and the removal asked for
\* now was refused.
C18_Witness ==
  /\ op = "RemoveComponent"
  /\ ret = FALSE
  /\ HasEntity(Self, 1)
  /\ 1 \in At(removedComponents, 1)
  /\ ~EntityHasComponentType(Self, 1, 1)


\* C19: CreateComponentImplementation(e, t, data) for an entity that does
\* not exist, or for a type that was never created in this manager and that
\* the Factory does not know, returns false and leaves the manager as it
\* was.
C19_CreateComponentRefused ==
  \A e \in IdSpace, t \in AllTypes, data \in Payloads :
    (\/ ~HasEntity(Self, e)
     \/ (t \notin createdCompTypes /\ ~FactoryHasType(t)))
      => LET r == CreateComponentImplementation(Self, e, t, data)
         IN r.ret = FALSE /\ r.st = Self

\* Both entities a caller can name exist and the last call, a creation,
\* left the index empty: it asked for the type the Factory does not know.
C19_Witness ==
  /\ op = "CreateComponentImplementation"
  /\ ret = FALSE
  /\ entities.V = {1, 2}
  /\ entityComponents = EmptyMap
  /\ createdCompTypes = {}


\* C20: SetChanged(e, t, c) on an entity that has a component of type t
\* leaves ComponentState(e, t) = c, with the pair in the periodic set only
\* for PeriodicChange, in the one-time set only for OneTimeChange and in
\* neither for NoChange; on an entity that lacks t or does not exist it
\* changes nothing.
C20_SetChangedSetsState ==
  \A e \in IdSpace, t \in AllTypes, c \in ChangeArgs :
    LET s2 == SetChanged(Self, e, t, c)
    IN IF EntityHasComponentType(Self, e, t)
       THEN /\ ComponentState(s2, e, t) = c
            /\ (e \in At(s2.periodicChangedComponents, t)) <=> (c = "PeriodicChange")
            /\ (e \in At(s2.oneTimeChangedComponents, t)) <=> (c = "OneTimeChange")
       ELSE s2 = Self

\* The component of entity 1 is a periodic change after SetChanged took it
\* out of the one-time set, whose key is left with an empty set.
C20_Witness ==
  /\ op = "SetChanged"
  /\ ComponentState(Self, 1, 1) = "PeriodicChange"
  /\ Has(oneTimeChangedComponents, 1)
  /\ oneTimeChangedComponents[1] = {}


\* The fields of the manager, without the warn-once sets of the process.
ManagerOf(s) == [s EXCEPT !.printedCompsFlat = {}, !.printedCompsMap = {}]

\* The messages whose one entity entry, for entity e, carries one component
\* of the type the Factory does not know.
UnknownOnlyFlat(e) ==
  {<<[id |-> e, remove |-> FALSE, components |-> <<c>>]>> :
     c \in CompMsgs({UnknownType}, ByteStrings({MaxPayload}))}
UnknownOnlyMap(e) ==
  {[entities |-> Put(EmptyMap, e, [id |-> e, remove |-> FALSE,
                                   components |-> Put(EmptyMap, c.type, c)]),
    has_one_time_component_changes |-> o] :
     c \in CompMsgs({UnknownType}, ByteStrings({MaxPayload})), o \in BOOLEAN}

\* C21 as stated: SetState, flat or map, of a message whose entity carries
\* only components of a type the Factory does not know leaves the manager
\* unchanged: no entity created, no component added or removed, no ledger
\* set changed.
C21_UnknownTypeChangesNothing ==
  \A e \in IdSpace :
    /\ \A m \in UnknownOnlyFlat(e) : ManagerOf(SetStateFlat(Self, m)) = ManagerOf(Self)
    /\ \A m \in UnknownOnlyMap(e) : ManagerOf(SetStateMap(Self, m)) = ManagerOf(Self)

\* C21 amended: the same for a message whose entity exists.
C21_UnknownTypeOnExistingEntity ==
  \A e \in entities.V :
    /\ \A m \in UnknownOnlyFlat(e) : ManagerOf(SetStateFlat(Self, m)) = ManagerOf(Self)
    /\ \A m \in UnknownOnlyMap(e) : ManagerOf(SetStateMap(Self, m)) = ManagerOf(Self)

\* A message with a component of the unknown type has just been applied to
\* entity 1, which existed before and has a component of its own.
C21_Witness ==
  /\ op = "SetStateMap"
  /\ ret \in UnknownOnlyMap(1)
  /\ newlyCreatedEntities = {}
  /\ EntityHasComponentType(Self, 1, 1)


\* C22: the warning for an unregistered component type is emitted at most
\* once per type over the SetState calls of a process, flat and map form
\* together.  Each form warns exactly when it inserts the type into its own
\* warn-once set, so a type in both sets has been warned about twice.
C22_WarnedOncePerType ==
  \A t \in AllTypes : ~(t \in printedCompsFlat /\ t \in printedCompsMap)

\* The messages whose one entity entry, for entity e, carries one component
\* entry with an empty component text.
EmptyOnlyFlat(e) ==
  {<<[id |-> e, remove |-> FALSE, components |-> <<c>>]>> :
     c \in CompMsgs(AllTypes, {<<>>})}
EmptyOnlyMap(e) ==
  {[entities |-> Put(EmptyMap, e, [id |-> e, remove |-> FALSE,
                                   components |-> Put(EmptyMap, c.type, c)]),
    has_one_time_component_changes |-> o] :
     c \in CompMsgs(AllTypes, {<<>>}), o \in BOOLEAN}

\* C23: SetState, flat or map, skips a component entry whose component text
\* is empty: applied to an existing entity it creates, modifies and removes
\* no component and changes no ledger set.
C23_EmptyComponentSkipped ==
  \A e \in entities.V :
    /\ \A m \in EmptyOnlyFlat(e) : ManagerOf(SetStateFlat(Self, m)) = ManagerOf(Self)
    /\ \A m \in EmptyOnlyMap(e) : ManagerOf(SetStateMap(Self, m)) = ManagerOf(Self)


\* C24: after the map-form SetState, every component the message applied
\* (an entry of a known type, not a removal, with a non-empty text, of an
\* entity entry that is not a removal) has ComponentState OneTimeChange
\* when has_one_time_component_changes is true and PeriodicChange when it
\* is false.
C24_AppliedStateFollowsFlag ==
  op = "SetStateMap"
    => \A e \in DOMAIN ret.entities :
         ~ret.entities[e].remove
           => \A k \in DOMAIN ret.entities[e].components :
                LET c == ret.entities[e].components[k]
                IN (FactoryHasType(c.type) /\ ~c.remove /\ c.component # <<>>)
                     => ComponentState(Self, e, k) =
                          IF ret.has_one_time_component_changes
                          THEN "OneTimeChange" ELSE "PeriodicChange"


C30_UnknownParentRefused ==
  \A child \in IdSpace, parent \in IdSpace \ (entities.V \cup {kNullEntity}) :
    LET r == SetParentEntity(Self, child, parent)
    IN /\ r.ret = FALSE
       /\ r.st.entities = entities
       /\ ParentEntity(r.st, child) = ParentEntity(Self, child)


RECURSIVE ShardsFrom(_, _, _)
\* The keys of the sub-ranges its[i] .. its[i + 1], i and up, one after
\* the other.
ShardsFrom(keys, its, i) ==
  IF i >= Len(its) THEN <<>>
  ELSE ShardKeys(keys, its[i], its[i + 1]) \o ShardsFrom(keys, its, i + 1)

\* C26: for every size of the index and every value h >= 0 of
\* hardware_concurrency, the iterators CalculateStateThreadLoad stores give
\* at most min(n, h) sub-ranges which, one after the other, are the whole
\* index: every entity of the index is in exactly one of them.
C26_ShardsPartitionIndex ==
  \A h \in 0 .. HardwareConcurrency :
    LET keys == SetToSeq(DOMAIN entityComponents)
        its == CalculateStateThreadLoad(
                 [Self EXCEPT !.entityComponentsDirty = TRUE], h).entityComponentIterators
    IN /\ Len(its) - 1 <= Min(Len(keys), h)
       /\ ShardsFrom(keys, its, 1) = keys

\* C27: every step that adds or removes an entry of the entity/component
\* index (an entity key, or a type of an entity) leaves
\* entityComponentsDirty set.
C27_IndexChangeSetsDirty ==
  [][entityComponents' # entityComponents => entityComponentsDirty']_vars

\* C25: when a map-form State returns, whatever the order in which its
\* workers built and merged their maps, the entities of the message and
\* the entry of each are those of one pass over the whole index that calls
\* AddEntityToMessage on every entity, which are also those of a second
\* State call that follows on the unmodified manager.
C25_StateMapDeterministic ==
  op = "StateMapJoin" =>
    /\ msg.entities =
         AddEachMap(Self, EmptyStateMap, SetToSeq(DOMAIN entityComponents),
                    {}, ret[1], ret[2]).entities
    /\ msg.entities =
         StateMap(Self, EmptyStateMap, {}, {}, ret[1], ret[2]).ret.entities

\* C28: whenever a thread is about to read or write newlyCreatedEntities
\* it holds entityCreatedMutex, and whenever it is about to read or write
\* toRemoveEntities or removeAllEntities it holds entityRemoveMutex.
C28_GuardedAccessHoldsMutex ==
  \A t \in Threads :
    NextStep(t).k \in {"read", "write"}
      => GuardOf(NextStep(t).x) \in threads[t].held

\* C31: in every graph reachable through SetParentEntity,
\* RequestRemoveEntity(e, true) returns for every entity e: the recursive
\* collection of its descendants does not overflow the stack.
C31_RecursiveRemovalTerminates ==
  \A e \in IdSpace : ~RequestRemoveEntity(Self, e, TRUE).crashed

\* C32: in the message the map-form AddEntityToMessage builds for an
\* entity, whether the full state is asked for or not, no component entry
\* of a type the entity currently has carries remove = true.
C32_NoRemoveEntryForPresentComponent ==
  \A e \in DOMAIN entityComponents, full \in BOOLEAN, ub \in UBOutcomes :
    LET m == AddEntityToMessageMap(Self, EmptyStateMap, e, {}, full, ub)
    IN Has(m.entities, e) =>
         \A t \in DOMAIN m.entities[e].components :
           EntityHasComponentType(Self, e, t)
             => ~m.entities[e].components[t].remove

\* C33: HasOneTimeComponentChanges() is true exactly when some existing
\* entity has a component whose ComponentState is OneTimeChange, and
\* ComponentTypesWithPeriodicChanges() contains a type exactly when some
\* existing entity has a component of it whose ComponentState is
\* PeriodicChange.
C33_ChangeQueriesMatchComponentState ==
  /\ HasOneTimeComponentChanges(Self)
       <=> \E e \in entities.V, t \in AllTypes :
             ComponentState(Self, e, t) = "OneTimeChange"
  /\ \A t \in AllTypes :
       t \in ComponentTypesWithPeriodicChanges(Self)
         <=> \E e \in entities.V : ComponentState(Self, e, t) = "PeriodicChange"

\* C34: newlyCreatedEntities holds only existing entities: IsNewEntity(e)
\* implies HasEntity(e), in every reachable state.
C34_NewEntitiesExist ==
  \A e \in IdSpace : IsNewEntity(Self, e) => HasEntity(Self, e)

\* C35: the message of the flat-form ChangedState has at most one entity
\* entry for each entity id.
C35_OneEntryPerEntity ==
  LET m == ChangedStateFlat(Self)
  IN \A i \in 1 .. Len(m), j \in 1 .. Len(m) : m[i].id = m[j].id => i = j

\* C36: a thread that has its view for a key holds the one view registered
\* under that key, so two threads that both missed the key in FindView and
\* both called AddView hold the same view; and AddView, the one step that
\* writes the views here, takes no registered view away and puts no other
\* in its place.
C36_OneViewPerKey ==
  /\ [](\A t \in Threads :
          (threads[t].fn = "View" /\ threads[t].pc = 3)
            => /\ {p \in views : p[1] = threads[t].key}
                    = {<<threads[t].key, threads[t].got>>}
               /\ \A u \in Threads :
                    (threads[u].fn = "View" /\ threads[u].pc = 3
                     /\ threads[u].key = threads[t].key)
                      => threads[u].got = threads[t].got)
  /\ [][\A p \in views : p \in views']_vars

\* Both threads missed the same key in FindView, both called AddView, and
\* both hold the view of thread 2, which was registered first.
C36_Witness ==
  /\ \A t \in Threads :
       /\ threads[t].fn = "View"
       /\ threads[t].pc = 3
       /\ threads[t].key = {1}
       /\ threads[t].found = NullView
       /\ threads[t].got = 2
  /\ views = {<<{1}, 2>>}

=============================================================================
